---- MODULE Spec2Model ----
(***************************************************************************)
(* Triple-sequence batch assembly of DialoGPS (fairseq CSDAPairDataset):   *)
(* collate(), CSDAPairDataset.__init__, __getitem__, num_tokens, size,     *)
(* ordered_indices, filter_indices_by_size, collater, supports_prefetch    *)
(* and prefetch, and the task's load_dialog_pair_dataset, as state         *)
(* machines over small inputs.                                             *)
(*                                                                         *)
(* Conventions.  A tensor of token ids is a sequence of integers, a 2-D    *)
(* tensor a sequence of rows.  TLA+ sequences are 1-based: position j of   *)
(* the model is position j-1 of the Python list.  An optional value is a   *)
(* sequence of length at most one: None is <<>>, a present value x is <<x>>.*)
(***************************************************************************)
EXTENDS Integers, Sequences, FiniteSets, TLC

VARIABLES
    samples,    \* collate: the list of examples handed to collate
    cfg,        \* collate: its keyword arguments
    batch,      \* collate: what the call produced
    dataset,    \* CSDAPairDataset: the fields the operation at hand reads
    index,      \* __getitem__: the index asked for
    example,    \* __getitem__: what the call produced
    ordered,    \* ordered_indices: the starting order and the result
    filtered,   \* filter_indices_by_size: the arguments and the result
    stores,     \* CSDAPairDataset.__init__: its arguments
    calls,      \* per worker: the call it made on the dataset and the reply
    files,      \* load_dialog_pair_dataset: the shards on disk and combine
    loaded      \* load_dialog_pair_dataset: what the call produced

vars ==
    <<samples, cfg, batch, dataset, index, example, ordered, filtered,
      stores, calls, files, loaded>>

(***************************************************************************)
(* Bounds of the model and the dictionary's special symbols.               *)
(***************************************************************************)
MaxBatch == 2
MaxLen == 2
MaxRawLen == 2
MaxIndex == 1
NumExamples == 3
MaxShard == 2

BosIdx == 0
PadIdx == 1
EosIdx == 2

None == <<>>
Some(x) == <<x>>

\* The lengths the examples of a dataset take, and the maxima asked of
\* filter_indices_by_size: one number m, written <<m>>, or one per stream.
SizeValues == {1, 2}

MaxSizesValues ==
    {<<m>> : m \in SizeValues} \cup (SizeValues \X SizeValues \X SizeValues)

(***************************************************************************)
(* Generic helpers.                                                        *)
(***************************************************************************)
Max(S) == CHOOSE x \in S : \A y \in S : y <= x

Last(s) == s[Len(s)]

ButLast(s) == SubSeq(s, 1, Len(s) - 1)

Repeat(x, n) == [k \in 1..n |-> x]

RECURSIVE SumSeq(_)
SumSeq(s) == IF s = <<>> THEN 0 ELSE s[1] + SumSeq(Tail(s))

RECURSIVE StripTok(_, _)
StripTok(s, t) ==
    IF s = <<>> THEN <<>>
    ELSE IF s[1] = t THEN StripTok(Tail(s), t)
    ELSE <<s[1]>> \o StripTok(Tail(s), t)

\* tensor.ne(pad_idx).long().sum()
NePadSum(s, pad_idx) == Len(StripTok(s, pad_idx))

Perms(n) == {p \in [1..n -> 1..n] : \A i, j \in 1..n : i # j => p[i] # p[j]}

\* tensor.index_select(0, order)
IndexSelect(t, order) == [j \in DOMAIN order |-> t[order[j]]]

(***************************************************************************)
(* data_utils.collate_tokens, the padding primitive.                       *)
(***************************************************************************)
RoundUpToMultiple(size, pad_to_multiple) ==
    IF pad_to_multiple # 1 /\ size % pad_to_multiple # 0
    THEN ((size \div pad_to_multiple) + 1) * pad_to_multiple
    ELSE size

CopyTensor(src, move_eos_to_beginning) ==
    IF move_eos_to_beginning THEN <<Last(src)>> \o ButLast(src) ELSE src

CollateTokens(values, pad_idx, eos_idx, left_pad, move_eos_to_beginning, pad_to_length, pad_to_multiple) ==
    LET longest == Max({Len(values[i]) : i \in DOMAIN values})
        wanted == IF pad_to_length = None THEN longest
                  ELSE Max({longest, pad_to_length[1]})
        size == RoundUpToMultiple(wanted, pad_to_multiple)
        row(v) == IF left_pad
                  THEN Repeat(pad_idx, size - Len(v)) \o CopyTensor(v, move_eos_to_beginning)
                  ELSE CopyTensor(v, move_eos_to_beginning) \o Repeat(pad_idx, size - Len(v))
    IN [i \in DOMAIN values |-> row(values[i])]

(***************************************************************************)
(* collate(): the pieces of the batch, in the order the code builds them.  *)
(***************************************************************************)
Value(s, key) == IF key \in {"context", "latent"} THEN s[key] ELSE s[key][1]

PadTo(c, key) ==
    IF c.pad_to_length = None THEN None ELSE Some(c.pad_to_length[1][key])

\* Mutant of Merge: pad_idx and eos_idx passed in each other's place.
MergeSwappedIdx(smp, c, key, left_pad, move_eos_to_beginning, pad_to_length) ==
    CollateTokens([i \in DOMAIN smp |-> Value(smp[i], key)],
                  c.eos_idx, c.pad_idx, left_pad, move_eos_to_beginning,
                  pad_to_length, c.pad_to_multiple)

\* The inner merge(): the key's sequences of all samples through collate_tokens.
Merge(smp, c, key, left_pad, move_eos_to_beginning, pad_to_length) ==
    CollateTokens([i \in DOMAIN smp |-> Value(smp[i], key)],
                  c.pad_idx, c.eos_idx, left_pad, move_eos_to_beginning,
                  pad_to_length, c.pad_to_multiple)

Ids(smp) == [i \in DOMAIN smp |-> smp[i].id]

Lengths(smp, c, key) ==
    [i \in DOMAIN smp |-> NePadSum(Value(smp[i], key), c.pad_idx)]

\* Mutant of SortOrders: the descending flag dropped.
SortOrdersAscending(lengths) ==
    {p \in Perms(Len(lengths)) :
        \A j \in 1..(Len(lengths) - 1) : lengths[p[j]] <= lengths[p[j + 1]]}

\* cxt_lengths.sort(descending=True): torch.sort is called without stable=True,
\* so the order of equal lengths is whatever the build's sort produces.
SortOrders(lengths) ==
    {p \in Perms(Len(lengths)) :
        \A j \in 1..(Len(lengths) - 1) : lengths[p[j]] >= lengths[p[j + 1]]}

CxtTokens(smp, c, sort_order) ==
    IndexSelect(Merge(smp, c, "context", c.left_pad_source, FALSE,
                      PadTo(c, "context")), sort_order)

\* Mutant of ZTokens: the latent rows left in input order.
ZTokensUnsorted(smp, c, sort_order) ==
    Merge(smp, c, "latent", c.left_pad_source, FALSE, PadTo(c, "latent"))

ZTokens(smp, c, sort_order) ==
    IndexSelect(Merge(smp, c, "latent", c.left_pad_source, FALSE,
                      PadTo(c, "latent")), sort_order)

ResTarget(smp, c, sort_order) ==
    IndexSelect(Merge(smp, c, "target", c.left_pad_target, FALSE,
                      PadTo(c, "target")), sort_order)

ResLengths(smp, c, sort_order) ==
    IndexSelect(Lengths(smp, c, "target"), sort_order)

\* Mutant of NTokens: the size of the padded target array.
NTokensNumel(smp, c, sort_order) ==
    SumSeq([j \in DOMAIN smp |-> Len(ResTarget(smp, c, sort_order)[j])])

NTokens(smp, c, sort_order) == SumSeq(ResLengths(smp, c, sort_order))

\* Mutant of PrevOutputTokens: the targets shifted whatever input_feeding is.
PrevOutputTokensIgnoringFlag(smp, c) ==
    IF smp[1].prev_output_tokens # None
    THEN Some(Merge(smp, c, "prev_output_tokens", c.left_pad_target, FALSE, None))
    ELSE Some(Merge(smp, c, "target", c.left_pad_target, TRUE, PadTo(c, "target")))

\* prev_output_tokens before the final index_select: None, the precomputed
\* sequences, or the targets with the last token moved to the front.
PrevOutputTokens(smp, c) ==
    IF smp[1].prev_output_tokens # None
    THEN Some(Merge(smp, c, "prev_output_tokens", c.left_pad_target, FALSE, None))
    ELSE IF c.input_feeding
    THEN Some(Merge(smp, c, "target", c.left_pad_target, TRUE, PadTo(c, "target")))
    ELSE None

\* Mutant of PrevOutputField: the final index_select left out.
PrevOutputFieldUnsorted(smp, c, sort_order) == PrevOutputTokens(smp, c)

\* batch["net_input"]["prev_output_tokens"], when there is one
PrevOutputField(smp, c, sort_order) ==
    IF PrevOutputTokens(smp, c) # None
    THEN Some(IndexSelect(PrevOutputTokens(smp, c)[1], sort_order))
    ELSE None

\* Mutant of Constraints: the rows reordered like the other fields.
ConstraintsSorted(smp, sort_order) ==
    LET lens == [i \in DOMAIN smp |-> Len(smp[i].constraints[1])]
        max_len == Max({lens[i] : i \in DOMAIN smp})
    IN IndexSelect([i \in DOMAIN smp |->
                      smp[i].constraints[1] \o Repeat(0, max_len - lens[i])],
                   sort_order)

\* batch["constraints"]: zeros((len(samples), max(lens))), row i filled from
\* samples[i] in the order of the input list.
Constraints(smp, sort_order) ==
    LET lens == [i \in DOMAIN smp |-> Len(smp[i].constraints[1])]
        max_len == Max({lens[i] : i \in DOMAIN smp})
    IN [i \in DOMAIN smp |->
          smp[i].constraints[1] \o Repeat(0, max_len - lens[i])]

ConstraintsField(smp, sort_order) ==
    IF smp[1].constraints # None THEN Some(Constraints(smp, sort_order)) ELSE None

NoBatch ==
    [status |-> "none", id |-> <<>>, nsentences |-> 0, ntokens |-> 0,
     src_tokens |-> <<>>, src_lengths |-> <<>>, z_tokens |-> <<>>,
     z_lengths |-> <<>>, target |-> <<>>, prev_output_tokens |-> None,
     constraints |-> None, sort_order |-> <<>>]

\* Where collate raises instead of returning: the first sample has no target
\* (assert 1 == 0), or a key merged or read for every sample is None in one.
\* The samples carry no "alignment": load_dialog_pair_dataset asserts that
\* alignments are off, so the alignment block is never entered.
CollateRaises(smp) ==
    \/ smp[1].target = None
    \/ \E i \in DOMAIN smp : smp[i].target = None
    \/ /\ smp[1].prev_output_tokens # None
       /\ \E i \in DOMAIN smp : smp[i].prev_output_tokens = None
    \/ /\ smp[1].constraints # None
       /\ \E i \in DOMAIN smp : smp[i].constraints = None

CollateBatch(smp, c, sort_order) ==
    [status |-> "ok",
     id |-> IndexSelect(Ids(smp), sort_order),
     nsentences |-> Len(smp),
     ntokens |-> NTokens(smp, c, sort_order),
     src_tokens |-> CxtTokens(smp, c, sort_order),
     src_lengths |-> IndexSelect(Lengths(smp, c, "context"), sort_order),
     z_tokens |-> ZTokens(smp, c, sort_order),
     z_lengths |-> IndexSelect(Lengths(smp, c, "latent"), sort_order),
     target |-> ResTarget(smp, c, sort_order),
     prev_output_tokens |-> PrevOutputField(smp, c, sort_order),
     constraints |-> ConstraintsField(smp, sort_order),
     sort_order |-> sort_order]

\* Mutant of CollateResults: the examples without a target left out of the
\* batch when the first example has one.
CollateResultsSkipMissing(smp, c) ==
    LET have == SelectSeq(smp, LAMBDA s : s.target # None)
    IN IF Len(smp) = 0 THEN {[NoBatch EXCEPT !.status = "empty"]}
       ELSE IF smp[1].target = None \/ CollateRaises(have)
       THEN {[NoBatch EXCEPT !.status = "error"]}
       ELSE {CollateBatch(have, c, sort_order) :
               sort_order \in SortOrders(Lengths(have, c, "context"))}

CollateResults(smp, c) ==
    IF Len(smp) = 0 THEN {[NoBatch EXCEPT !.status = "empty"]}
    ELSE IF CollateRaises(smp) THEN {[NoBatch EXCEPT !.status = "error"]}
    ELSE {CollateBatch(smp, c, sort_order) :
            sort_order \in SortOrders(Lengths(smp, c, "context"))}

Collate ==
    /\ batch.status = "none"
    /\ batch' \in CollateResults(samples, cfg)
    /\ UNCHANGED <<samples, cfg, dataset, index, example, ordered, filtered,
                 stores, calls, files, loaded>>

(***************************************************************************)
(* CSDAPairDataset.__getitem__.  dataset.cxt, dataset.z and dataset.res    *)
(* are self.cxt[index], self.z[index] and self.res[index].                 *)
(***************************************************************************)
NoDataset == [kind |-> "none"]

NoExample ==
    [status |-> "none", id |-> 0, context |-> <<>>, latent |-> <<>>,
     target |-> <<>>, constraints |-> None]

\* Mutant of AppendEos: the test on the last token inverted.
AppendEosInverted(d) ==
    IF d.append_eos_to_target /\ Last(d.res) = EosIdx
    THEN d.res \o <<EosIdx>>
    ELSE d.res

\* res_item after the append_eos_to_target block
AppendEos(d) ==
    IF d.append_eos_to_target /\ Last(d.res) # EosIdx
    THEN d.res \o <<EosIdx>>
    ELSE d.res

\* The append_bos block first reads self.h_tgt[index]; no code of the class
\* sets an attribute h_tgt, so the read raises AttributeError and the rest of
\* the block never runs.
AppendBosRaises(d) == d.append_bos

\* cxt_item and z_item after the remove_eos_from_source block
RemoveEos(d, item) ==
    IF d.remove_eos_from_source /\ Last(item) = EosIdx THEN ButLast(item) ELSE item

GetItem(i, d) ==
    IF AppendBosRaises(d) THEN [NoExample EXCEPT !.status = "error"]
    ELSE [status |-> "ok",
          id |-> i,
          context |-> RemoveEos(d, d.cxt),
          latent |-> RemoveEos(d, d.z),
          target |-> AppendEos(d),
          constraints |-> d.constraints]

Get ==
    /\ dataset.kind = "items"
    /\ example.status = "none"
    /\ example' = GetItem(index, dataset)
    /\ UNCHANGED <<samples, cfg, batch, dataset, index, ordered, filtered,
                 stores, calls, files, loaded>>

(***************************************************************************)
(* num_tokens, ordered_indices and filter_indices_by_size.  A size array   *)
(* is a function on the dataset's indices 0..N-1, an index array a         *)
(* sequence of indices.                                                    *)
(***************************************************************************)
NoOrder == [status |-> "none", start |-> <<>>, indices |-> <<>>]

NoFilter ==
    [status |-> "none", indices |-> <<>>, max_sizes |-> <<>>,
     kept |-> <<>>, dropped |-> <<>>]

\* Idle values of the constructor's arguments, of the workers' calls and of
\* load_dialog_pair_dataset.
NoStores == [kind |-> "none"]

Workers == {1, 2}

NoCall == [status |-> "off", op |-> "none", arg |-> <<>>, value |-> <<>>]

NoCalls == [w \in Workers |-> NoCall]

NoFiles == [kind |-> "none"]

NoLoad == [status |-> "none", shards |-> <<>>]

DatasetLen(d) == Cardinality(DOMAIN d.cxt_sizes)

\* Mutant of NumTokens: the response size left out.
NumTokensNoResponse(d, i) ==
    Max({Max({d.cxt_sizes[i], d.z_sizes[i]}), d.cxt_sizes[i]})

NumTokens(d, i) ==
    Max({Max({d.cxt_sizes[i], d.z_sizes[i]}), Max({d.cxt_sizes[i], d.res_sizes[i]})})

\* self.bucketed_num_tokens
BucketedNumTokens(d) == [i \in DOMAIN d.cxt_sizes |-> NumTokens(d, i)]

\* np.arange(len(self))
Arange(n) == [j \in 1..n |-> j - 1]

\* The values np.random.permutation(len(self)) can take
IndexPermutations(n) ==
    {p \in [1..n -> 0..(n - 1)] : \A i, j \in 1..n : i # j => p[i] # p[j]}

RECURSIVE InsertByKey(_, _, _)
InsertByKey(sorted, x, key) ==
    IF sorted = <<>> THEN <<x>>
    ELSE IF key[sorted[1]] <= key[x]
    THEN <<sorted[1]>> \o InsertByKey(Tail(sorted), x, key)
    ELSE <<x>> \o sorted

\* indices[np.argsort(key[indices], kind="mergesort")]: indices in ascending
\* order of key, equal keys in the order they have in indices.
RECURSIVE StableSortBy(_, _)
StableSortBy(indices, key) ==
    IF indices = <<>> THEN <<>>
    ELSE InsertByKey(StableSortBy(ButLast(indices), key), Last(indices), key)

\* Mutant of OrderedIndices: the three passes in the opposite order.
OrderedIndicesContextFirst(d, start) ==
    IF ~d.bucketed
    THEN StableSortBy(StableSortBy(StableSortBy(start, d.cxt_sizes),
                                   d.z_sizes), d.res_sizes)
    ELSE StableSortBy(start, BucketedNumTokens(d))

OrderedIndices(d, start) ==
    IF ~d.bucketed
    THEN StableSortBy(StableSortBy(StableSortBy(start, d.res_sizes),
                                   d.z_sizes), d.cxt_sizes)
    ELSE StableSortBy(start, BucketedNumTokens(d))

StartOrders(d) ==
    IF d.shuffle THEN IndexPermutations(DatasetLen(d)) ELSE {Arange(DatasetLen(d))}

DoOrderedIndices ==
    /\ dataset.kind = "sizes"
    /\ ordered.status = "none"
    /\ \E start \in StartOrders(dataset) :
         ordered' = [status |-> "ok", start |-> start,
                     indices |-> OrderedIndices(dataset, start)]
    /\ UNCHANGED <<samples, cfg, batch, dataset, index, example, filtered,
                 stores, calls, files, loaded>>

\* boolean-mask selection indices[mask]: the indices that are in S, in order
RECURSIVE MaskSelect(_, _)
MaskSelect(indices, S) ==
    IF indices = <<>> THEN <<>>
    ELSE (IF indices[1] \in S THEN <<indices[1]>> ELSE <<>>)
           \o MaskSelect(Tail(indices), S)

\* max_sizes: one number m for the three streams, written <<m>>, or one per
\* stream
MaxTriple(max_sizes) ==
    IF Len(max_sizes) = 1
    THEN <<max_sizes[1], max_sizes[1], max_sizes[1]>>
    ELSE max_sizes

\* data_utils.filter_csda_dataset_indices_by_size
FilterCsdaDatasetIndicesBySize(cxt_sizes, z_sizes, res_sizes, indices, max_sizes) ==
    LET m == MaxTriple(max_sizes)
        ignored == {i \in DOMAIN cxt_sizes : \/ cxt_sizes[i] > m[1]
                                            \/ z_sizes[i] > m[2]
                                            \/ res_sizes[i] > m[3]}
    IN [kept |-> MaskSelect(indices, DOMAIN cxt_sizes \ ignored),
        dropped |-> MaskSelect(indices, ignored)]

\* Mutant of FilterIndicesBySize: the latent and response sizes exchanged.
FilterIndicesBySizeSwapped(d, indices, max_sizes) ==
    FilterCsdaDatasetIndicesBySize(d.cxt_sizes, d.res_sizes, d.z_sizes,
                                   indices, max_sizes)

FilterIndicesBySize(d, indices, max_sizes) ==
    FilterCsdaDatasetIndicesBySize(d.cxt_sizes, d.z_sizes, d.res_sizes,
                                   indices, max_sizes)

\* The batch iterator filters the indices that ordered_indices returned.
DoFilterIndicesBySize ==
    /\ dataset.kind = "sizes"
    /\ ordered.status = "ok"
    /\ filtered.status = "none"
    /\ \E max_sizes \in MaxSizesValues :
         LET r == FilterIndicesBySize(dataset, ordered.indices, max_sizes)
         IN filtered' = [status |-> "ok", indices |-> ordered.indices,
                         max_sizes |-> max_sizes,
                         kept |-> r.kept, dropped |-> r.dropped]
    /\ UNCHANGED <<samples, cfg, batch, dataset, index, example, ordered,
                 stores, calls, files, loaded>>

(***************************************************************************)
(* The inputs of collate.                                                  *)
(***************************************************************************)
Lens == 1..MaxLen

\* The width every stream is pre-padded to when the dataset buckets with one
\* bucket whose boundary is the longest sequence of the dataset.
BucketWidth == MaxLen + 1

Tokens(base, j, n) == [k \in 1..n |-> base + 10 * j + k]

\* BucketPadLengthDataset.__getitem__: pad on the configured side.
BucketPad(seq, width, left_pad) ==
    IF left_pad THEN Repeat(PadIdx, width - Len(seq)) \o seq
    ELSE seq \o Repeat(PadIdx, width - Len(seq))

Stream(seq, bucketed, left_pad) ==
    IF bucketed THEN BucketPad(seq, BucketWidth, left_pad) ELSE seq

SampleId(j) == 20 - 3 * j

\* A constraints tensor as fairseq packs it: the number of constraints, then
\* each constraint followed by a zero.
PackedConstraints(j, n) ==
    <<n - 1>> \o [k \in 1..(2 * (n - 1)) |->
                    IF k % 2 = 1 THEN 500 + 10 * j + ((k + 1) \div 2) ELSE 0]

\* The example at position j of the list.  shape.cl and shape.tl are the
\* lengths of its context and its target; its latent is the longer the shorter
\* its context is.
MakeSample(j, shape, c, bucketed, with_prev, with_cons) ==
    [id |-> SampleId(j),
     context |-> Stream(Tokens(100, j, shape.cl), bucketed, c.left_pad_source),
     latent |-> Stream(Tokens(200, j, MaxLen + 1 - shape.cl), bucketed,
                       c.left_pad_source),
     target |-> Some(Stream(Tokens(300, j, shape.tl - 1) \o <<c.eos_idx>>,
                            bucketed, c.left_pad_target)),
     prev_output_tokens |->
        IF with_prev
        THEN Some(<<c.eos_idx>> \o Tokens(400, j, MaxLen - shape.cl))
        ELSE None,
     constraints |->
        IF with_cons THEN Some(PackedConstraints(j, shape.tl)) ELSE None]

Shapes == [cl : Lens, tl : Lens]

PadToLengths ==
    {None, Some([context |-> MaxLen + 2, latent |-> MaxLen + 2, target |-> MaxLen + 2])}

Configs ==
    [pad_idx : {PadIdx}, eos_idx : {EosIdx},
     left_pad_source : BOOLEAN, left_pad_target : BOOLEAN,
     input_feeding : BOOLEAN, pad_to_length : PadToLengths,
     pad_to_multiple : {1, 2}]

\* collate's defaults
DefaultCfg ==
    [pad_idx |-> PadIdx, eos_idx |-> EosIdx, left_pad_source |-> FALSE,
     left_pad_target |-> FALSE, input_feeding |-> TRUE, pad_to_length |-> None,
     pad_to_multiple |-> 1]

Init ==
    /\ cfg \in Configs
    /\ \E n \in 0..MaxBatch, bucketed \in BOOLEAN, with_prev \in BOOLEAN,
          with_cons \in BOOLEAN :
         \E shape \in [1..n -> Shapes] :
            samples = [j \in 1..n |->
                         MakeSample(j, shape[j], cfg, bucketed, with_prev, with_cons)]
    /\ batch = NoBatch
    /\ dataset = NoDataset
    /\ index = 0
    /\ example = NoExample
    /\ ordered = NoOrder
    /\ filtered = NoFilter
    /\ stores = NoStores
    /\ calls = NoCalls
    /\ files = NoFiles
    /\ loaded = NoLoad

Next == Collate

Spec == Init /\ [][Next]_vars

(***************************************************************************)
(* Properties of collate.                                                  *)
(***************************************************************************)
B == Len(samples)

Unpadded(seq) == StripTok(seq, PadIdx)

TokenSet(seq) == {seq[k] : k \in DOMAIN seq}

Identity(n) == [j \in 1..n |-> j]

Returned == batch.status = "ok"

\* C1: a returned batch is row-consistent: one permutation p of the input
\* positions exists such that row j of id, of the context, latent and target
\* tokens and lengths and of the previous-output tokens (when the batch has
\* them) all come from input example p[j], and every length is the number of
\* non-pad tokens of its row.
RowConsistent ==
    Returned =>
      \E p \in Perms(B) : \A j \in 1..B :
        /\ batch.id[j] = samples[p[j]].id
        /\ Unpadded(batch.src_tokens[j]) = Unpadded(samples[p[j]].context)
        /\ batch.src_lengths[j] = NePadSum(batch.src_tokens[j], PadIdx)
        /\ Unpadded(batch.z_tokens[j]) = Unpadded(samples[p[j]].latent)
        /\ batch.z_lengths[j] = NePadSum(batch.z_tokens[j], PadIdx)
        /\ Unpadded(batch.target[j]) = Unpadded(samples[p[j]].target[1])
        /\ batch.prev_output_tokens # None =>
             TokenSet(Unpadded(batch.prev_output_tokens[1][j])) =
               TokenSet(Unpadded(
                 IF samples[p[j]].prev_output_tokens # None
                 THEN samples[p[j]].prev_output_tokens[1]
                 ELSE samples[p[j]].target[1]))

RowConsistentWitness ==
    /\ Returned
    /\ B >= 2
    /\ batch.sort_order # Identity(B)
    /\ batch.prev_output_tokens # None
    /\ batch.z_lengths[1] # batch.z_lengths[2]
    /\ RowConsistent

\* Two examples whose targets have 5 and 3 tokens.
TwoTargets ==
    LET ex(j, cl, tl) ==
          [id |-> j, context |-> Tokens(100, j, cl), latent |-> Tokens(200, j, 1),
           target |-> Some(Tokens(300, j, tl - 1) \o <<EosIdx>>),
           prev_output_tokens |-> None, constraints |-> None]
    IN <<ex(1, 1, 5), ex(2, 2, 3)>>

TwoTargetsGiveEight ==
    \A c \in Configs :
      \A r \in CollateResults(TwoTargets, c) : r.status = "ok" /\ r.ntokens = 8

\* C2: ntokens of a returned batch is the sum over the examples of the non-pad
\* tokens of their targets, whatever the padded width and the order; targets
\* of 5 and 3 tokens give 8 under every configuration.
NTokensExact ==
    /\ Returned =>
         batch.ntokens =
           SumSeq([i \in 1..B |-> Len(Unpadded(samples[i].target[1]))])
    /\ TwoTargetsGiveEight

NTokensExactWitness ==
    /\ Returned
    /\ B >= 2
    /\ Len(batch.target[1]) > Len(Unpadded(batch.target[1]))
    /\ batch.ntokens < B * Len(batch.target[1])
    /\ batch.sort_order # Identity(B)
    /\ batch.ntokens > B

Descending(lengths) ==
    \A j \in 1..(Len(lengths) - 1) : lengths[j] >= lengths[j + 1]

\* C3 as amended: sort_order is a permutation of the input positions that
\* orders them by context length (non-pad tokens) descending, so the batch's
\* context lengths are non-increasing; the order among equal lengths is not
\* fixed.
SortedDescending ==
    Returned =>
      /\ batch.sort_order \in Perms(B)
      /\ \A j \in 1..B :
           batch.src_lengths[j] =
             Len(Unpadded(samples[batch.sort_order[j]].context))
      /\ Descending(batch.src_lengths)

SortedDescendingWitness ==
    /\ Returned
    /\ B >= 2
    /\ batch.sort_order # Identity(B)
    /\ batch.src_lengths[1] > batch.src_lengths[B]
    /\ SortedDescending

\* C3 as stated: descending and stable: examples of equal context length keep
\* the relative order of the input list.
SortedDescendingStable ==
    Returned =>
      /\ SortedDescending
      /\ \A j, k \in 1..B :
           (j < k /\ batch.src_lengths[j] = batch.src_lengths[k])
             => batch.sort_order[j] < batch.sort_order[k]

MoveLastToFront(seq) == <<seq[Len(seq)]>> \o SubSeq(seq, 1, Len(seq) - 1)

DerivesPrevious ==
    /\ Returned
    /\ cfg.input_feeding
    /\ \A i \in 1..B : samples[i].prev_output_tokens = None

PreviousIsShiftedTarget(j) ==
    /\ batch.prev_output_tokens # None
    /\ Unpadded(batch.prev_output_tokens[1][j]) =
         MoveLastToFront(Unpadded(samples[batch.sort_order[j]].target[1]))
    /\ Unpadded(batch.target[j]) = Unpadded(samples[batch.sort_order[j]].target[1])

\* C4 as stated: with input feeding and no precomputed previous output, every
\* previous-output row, pad stripped, is the unpadded target of the example at
\* the same batch position with its last token moved to the front.
ShiftedTarget ==
    DerivesPrevious => \A j \in 1..B : PreviousIsShiftedTarget(j)

\* C4 as amended: the same, for the examples whose target as handed to collate
\* ends with eos (no pad follows its last token).
ShiftedTargetNoTrailingPad ==
    DerivesPrevious =>
      \A j \in 1..B :
        Last(samples[batch.sort_order[j]].target[1]) = cfg.eos_idx
          => PreviousIsShiftedTarget(j)

ShiftedTargetWitness ==
    /\ DerivesPrevious
    /\ B >= 2
    /\ batch.sort_order # Identity(B)
    /\ \E j \in 1..B :
         /\ Len(Unpadded(batch.target[j])) >= 2
         /\ Len(batch.target[j]) > Len(Unpadded(batch.target[j]))
         /\ Last(samples[batch.sort_order[j]].target[1]) = cfg.eos_idx
         /\ PreviousIsShiftedTarget(j)

\* C5: when every example carries constraints the batch's constraints have one
\* row per example, as wide as the longest constraints of the batch; row i is
\* the constraints of input example i followed by zeros, in the order of the
\* input list and not in the batch's sort order.
ConstraintsInInputOrder ==
    (Returned /\ \A i \in 1..B : samples[i].constraints # None) =>
      /\ batch.constraints # None
      /\ Len(batch.constraints[1]) = B
      /\ \A i \in 1..B :
           LET own == samples[i].constraints[1]
               row == batch.constraints[1][i]
           IN /\ Len(row) = Max({Len(samples[k].constraints[1]) : k \in 1..B})
              /\ SubSeq(row, 1, Len(own)) = own
              /\ \A k \in (Len(own) + 1)..Len(row) : row[k] = 0

ConstraintsInInputOrderWitness ==
    /\ Returned
    /\ B >= 2
    /\ batch.constraints # None
    /\ batch.sort_order # Identity(B)
    /\ Len(samples[1].constraints[1]) < Len(samples[2].constraints[1])
    /\ ConstraintsInInputOrder

RowRoundTrip(row, original, left_pad) ==
    LET content == Unpadded(original)
        pads == Repeat(PadIdx, Len(row) - Len(content))
    IN /\ Unpadded(row) = content
       /\ row = IF left_pad THEN pads \o content ELSE content \o pads

\* C6: every row of the padded context, latent and target arrays, with the pad
\* symbol removed, is the unpadded sequence of its example; the content is at
\* the start of the row when the stream pads on the right and at its end when
\* the stream pads on the left.
PaddingRoundTrip ==
    Returned =>
      \A j \in 1..B :
        LET s == samples[batch.sort_order[j]]
        IN /\ RowRoundTrip(batch.src_tokens[j], s.context, cfg.left_pad_source)
           /\ RowRoundTrip(batch.z_tokens[j], s.latent, cfg.left_pad_source)
           /\ RowRoundTrip(batch.target[j], s.target[1], cfg.left_pad_target)

PaddingRoundTripWitness ==
    /\ Returned
    /\ B >= 2
    /\ cfg.left_pad_source
    /\ ~cfg.left_pad_target
    /\ batch.src_tokens[B][1] = PadIdx
    /\ Last(batch.target[1]) = PadIdx
    /\ PaddingRoundTrip

InitMixed ==
    /\ cfg \in {c \in Configs : c.pad_to_length = None /\ c.pad_to_multiple = 1}
    /\ \E n \in 1..MaxBatch :
         \E shape \in [1..n -> Shapes], has_target \in [1..n -> BOOLEAN] :
            samples = [j \in 1..n |->
                         LET s == MakeSample(j, shape[j], cfg, FALSE, FALSE, FALSE)
                         IN IF has_target[j] THEN s ELSE [s EXCEPT !.target = None]]
    /\ batch = NoBatch
    /\ dataset = NoDataset
    /\ index = 0
    /\ example = NoExample
    /\ ordered = NoOrder
    /\ filtered = NoFilter
    /\ stores = NoStores
    /\ calls = NoCalls
    /\ files = NoFiles
    /\ loaded = NoLoad

SpecMixed == InitMixed /\ [][Next]_vars

MixedTargets ==
    \E i, j \in 1..B : samples[i].target = None /\ samples[j].target # None

\* C13: a collate call on a list that mixes examples with a target and
\* examples without one, whichever comes first, returns no batch: it raises.
MixedTargetsRaise ==
    (batch.status # "none" /\ MixedTargets) => batch.status = "error"

MixedTargetsRaiseWitness ==
    /\ batch.status = "error"
    /\ B >= 2
    /\ samples[1].target # None
    /\ samples[B].target = None

(***************************************************************************)
(* __getitem__ on one index of a dataset, under every combination of the   *)
(* transform flags.                                                        *)
(***************************************************************************)
\* A token that is neither bos nor eos; __getitem__ compares tokens with
\* these two only, so it stands for every other symbol, pad included.
Word == 4

RawTokens == {BosIdx, EosIdx, Word}

RawSeqs == UNION {[1..n -> RawTokens] : n \in 1..MaxRawLen}

Datasets ==
    [kind : {"items"}, cxt : RawSeqs, z : RawSeqs, res : RawSeqs,
     constraints : {None, Some(<<0>>)},
     append_eos_to_target : BOOLEAN, append_bos : BOOLEAN,
     remove_eos_from_source : BOOLEAN]

InitGet ==
    /\ samples = <<>>
    /\ cfg = DefaultCfg
    /\ batch = NoBatch
    /\ dataset \in Datasets
    /\ index \in 0..MaxIndex
    /\ example = NoExample
    /\ ordered = NoOrder
    /\ filtered = NoFilter
    /\ stores = NoStores
    /\ calls = NoCalls
    /\ files = NoFiles
    /\ loaded = NoLoad

NextGet == Get

SpecGet == InitGet /\ [][NextGet]_vars

StripEos(d, item) ==
    IF d.remove_eos_from_source /\ item # <<>> /\ Last(item) = EosIdx
    THEN ButLast(item) ELSE item

WithEos(d, item) ==
    IF d.append_eos_to_target /\ (item = <<>> \/ Last(item) # EosIdx)
    THEN item \o <<EosIdx>> ELSE item

WithBos(d, item) ==
    IF d.append_bos /\ (item = <<>> \/ item[1] # BosIdx)
    THEN <<BosIdx>> \o item ELSE item

\* C8: __getitem__ returns normally and applies every enabled transform
\* cumulatively, in the order remove-eos, append-eos, prepend-bos: context and
\* latent are bos + the raw sequence without its trailing eos, the target is
\* bos + raw target + eos, each added only where not already present.
TransformsCumulative ==
    example.status # "none" =>
      /\ example.status = "ok"
      /\ example.context = WithBos(dataset, StripEos(dataset, dataset.cxt))
      /\ example.latent = WithBos(dataset, StripEos(dataset, dataset.z))
      /\ example.target = WithBos(dataset, WithEos(dataset, dataset.res))

(***************************************************************************)
(* ordered_indices, then filter_indices_by_size on its result, over every  *)
(* dataset of NumExamples examples with sizes in SizeValues.               *)
(***************************************************************************)
SizeArrays == [0..(NumExamples - 1) -> SizeValues]

SizedDatasets ==
    [kind : {"sizes"}, cxt_sizes : SizeArrays, z_sizes : SizeArrays,
     res_sizes : SizeArrays, shuffle : BOOLEAN, bucketed : BOOLEAN]

InitOrder ==
    /\ samples = <<>>
    /\ cfg = DefaultCfg
    /\ batch = NoBatch
    /\ dataset \in SizedDatasets
    /\ index = 0
    /\ example = NoExample
    /\ ordered = NoOrder
    /\ filtered = NoFilter
    /\ stores = NoStores
    /\ calls = NoCalls
    /\ files = NoFiles
    /\ loaded = NoLoad

NextOrder == DoOrderedIndices \/ DoFilterIndicesBySize

SpecOrder == InitOrder /\ [][NextOrder]_vars

N == DatasetLen(dataset)

PosIn(seq, x) == CHOOSE k \in DOMAIN seq : seq[k] = x

\* a comes before b: smaller context size, then smaller latent size, then
\* smaller response size, then earlier in the starting order
Before(d, start, a, b) ==
    \/ d.cxt_sizes[a] < d.cxt_sizes[b]
    \/ /\ d.cxt_sizes[a] = d.cxt_sizes[b]
       /\ \/ d.z_sizes[a] < d.z_sizes[b]
          \/ /\ d.z_sizes[a] = d.z_sizes[b]
             /\ \/ d.res_sizes[a] < d.res_sizes[b]
                \/ /\ d.res_sizes[a] = d.res_sizes[b]
                   /\ PosIn(start, a) < PosIn(start, b)

OrderExample ==
    [kind |-> "sizes",
     cxt_sizes |-> [i \in 0..2 |-> <<3, 1, 2>>[i + 1]],
     z_sizes |-> [i \in 0..2 |-> 9],
     res_sizes |-> [i \in 0..2 |-> 5],
     shuffle |-> FALSE, bucketed |-> FALSE]

OrderExampleResult ==
    \A start \in StartOrders(OrderExample) :
      OrderedIndices(OrderExample, start) = <<1, 2, 0>>

\* C9: ordered_indices returns a permutation of 0..N-1; without bucketing the
\* result is ascending by context size, ties broken by latent size, then by
\* response size, then by the position in the starting order (the identity, or
\* the random permutation when shuffle is set); cxt=[3,1,2], z=[9,9,9],
\* res=[5,5,5] without shuffle gives [1,2,0].
OrderedIsSortedPermutation ==
    /\ ordered.status = "ok" =>
         /\ ordered.indices \in IndexPermutations(N)
         /\ ~dataset.shuffle => ordered.start = Arange(N)
         /\ ~dataset.bucketed =>
              \A j, k \in 1..N :
                j < k => Before(dataset, ordered.start,
                                ordered.indices[j], ordered.indices[k])
    /\ OrderExampleResult

OrderedIsSortedPermutationWitness ==
    /\ ordered.status = "ok"
    /\ dataset.shuffle
    /\ ~dataset.bucketed
    /\ ordered.start # Arange(N)
    /\ ordered.indices # ordered.start
    /\ \E a, b \in 0..(N - 1) :
         /\ dataset.cxt_sizes[a] = dataset.cxt_sizes[b]
         /\ dataset.z_sizes[a] < dataset.z_sizes[b]
         /\ dataset.res_sizes[a] > dataset.res_sizes[b]
         /\ PosIn(ordered.start, a) > PosIn(ordered.start, b)
         /\ PosIn(ordered.indices, a) < PosIn(ordered.indices, b)

Exceeds(d, i, max_sizes) ==
    \/ d.cxt_sizes[i] > MaxTriple(max_sizes)[1]
    \/ d.z_sizes[i] > MaxTriple(max_sizes)[2]
    \/ d.res_sizes[i] > MaxTriple(max_sizes)[3]

Elems(seq) == {seq[k] : k \in DOMAIN seq}

IsSubsequence(sub, seq) ==
    \A j, k \in DOMAIN sub :
      j < k => PosIn(seq, sub[j]) < PosIn(seq, sub[k])

FilterExample ==
    [kind |-> "sizes",
     cxt_sizes |-> [i \in 0..1 |-> <<5, 4>>[i + 1]],
     z_sizes |-> [i \in 0..1 |-> <<3, 10>>[i + 1]],
     res_sizes |-> [i \in 0..1 |-> <<2, 6>>[i + 1]],
     shuffle |-> FALSE, bucketed |-> FALSE]

FilterExampleResult ==
    FilterIndicesBySize(FilterExample, <<0, 1>>, <<4, 10, 6>>) =
      [kept |-> <<1>>, dropped |-> <<0>>]

\* C10: filter_indices_by_size splits the indices into kept and dropped: an
\* index is dropped exactly when one of its context, latent or response sizes
\* is greater than the corresponding maximum (a single number is the maximum
\* of all three streams, a size equal to the maximum is kept), kept keeps the
\* order of the indices, and every index is in exactly one of the two; with
\* maxima (4,10,6), sizes (5,3,2) are dropped and sizes (4,10,6) are kept.
FilterPartitions ==
    /\ filtered.status = "ok" =>
         /\ Elems(filtered.dropped) =
              {i \in Elems(filtered.indices) : Exceeds(dataset, i, filtered.max_sizes)}
         /\ Elems(filtered.kept) =
              {i \in Elems(filtered.indices) : ~Exceeds(dataset, i, filtered.max_sizes)}
         /\ Len(filtered.kept) + Len(filtered.dropped) = Len(filtered.indices)
         /\ IsSubsequence(filtered.kept, filtered.indices)
    /\ FilterExampleResult

FilterPartitionsWitness ==
    /\ filtered.status = "ok"
    /\ Len(filtered.max_sizes) = 3
    /\ filtered.indices # Arange(N)
    /\ Len(filtered.kept) >= 2
    /\ Len(filtered.dropped) >= 1
    /\ \E i \in Elems(filtered.kept) :
         /\ dataset.cxt_sizes[i] = filtered.max_sizes[1]
         /\ dataset.z_sizes[i] = filtered.max_sizes[2]
         /\ dataset.res_sizes[i] = filtered.max_sizes[3]
    /\ \E i \in Elems(filtered.dropped) :
         /\ dataset.cxt_sizes[i] <= filtered.max_sizes[1]
         /\ dataset.z_sizes[i] <= filtered.max_sizes[2]
         /\ dataset.res_sizes[i] > filtered.max_sizes[3]

(***************************************************************************)
(* CSDAPairDataset.__init__ and the calls made on the constructed dataset. *)
(* A store is a function from the indices 0..n-1 to token sequences, a     *)
(* size array a function from the same indices to lengths.                 *)
(***************************************************************************)
\* len(store)
StoreLen(store) == Cardinality(DOMAIN store)

\* Mutant of ConstructRaises: the asserts made only when buckets are asked for.
ConstructRaisesOnlyBucketed(a) ==
    /\ a.num_buckets > 0
    /\ \/ StoreLen(a.cxt) # StoreLen(a.res)
       \/ StoreLen(a.z) # StoreLen(a.res)

\* The two asserts at the head of __init__.
ConstructRaises(a) ==
    \/ StoreLen(a.cxt) # StoreLen(a.res)
    \/ StoreLen(a.z) # StoreLen(a.res)

Min(S) == CHOOSE x \in S : \A y \in S : x <= y

\* The sizes of a stream in ascending order
SortedSizes(sizes) ==
    LET n == Cardinality(DOMAIN sizes)
        order == StableSortBy(Arange(n), sizes)
    IN [k \in 1..n |-> sizes[order[k]]]

\* The boundaries of a stream: the num_buckets quantiles of its observed
\* sizes, the largest size being the last boundary.
GetBuckets(sizes, num_buckets) ==
    LET sorted == SortedSizes(sizes)
        n == Len(sorted)
    IN {sorted[(((n - 1) * j) \div num_buckets) + 1] : j \in 1..num_buckets}

\* The smallest boundary that is >= size
GetBucketedSize(size, buckets) == Min({b \in buckets : b >= size})

\* BucketPadLengthDataset(store, sizes, num_buckets, pad, left_pad): its
\* items, its sizes and its boundaries.
BucketPadLengthDataset(store, sizes, num_buckets, left_pad) ==
    LET buckets == GetBuckets(sizes, num_buckets)
    IN [items |-> [i \in DOMAIN store |->
                     BucketPad(store[i], GetBucketedSize(sizes[i], buckets), left_pad)],
        sizes |-> [i \in DOMAIN sizes |-> GetBucketedSize(sizes[i], buckets)],
        buckets |-> buckets]

WrapCxt(a) ==
    BucketPadLengthDataset(a.cxt, a.cxt_sizes, a.num_buckets, a.left_pad_source)

\* Mutant of WrapZ: the latent stream bucketed by the context sizes.
WrapZWithCxtSizes(a) ==
    BucketPadLengthDataset(a.z, a.cxt_sizes, a.num_buckets, a.left_pad_source)

WrapZ(a) ==
    BucketPadLengthDataset(a.z, a.z_sizes, a.num_buckets, a.left_pad_source)

WrapRes(a) ==
    BucketPadLengthDataset(a.res, a.res_sizes, a.num_buckets, a.left_pad_target)

\* The object __init__ leaves behind.  self.sizes is np.vstack of the three
\* size arrays as they are at line 265, kept here untransposed.
BuildDataset(a) ==
    LET bucketed == a.num_buckets > 0
        sized == [cxt_sizes |-> IF bucketed THEN WrapCxt(a).sizes ELSE a.cxt_sizes,
                  z_sizes |-> IF bucketed THEN WrapZ(a).sizes ELSE a.z_sizes,
                  res_sizes |-> IF bucketed THEN WrapRes(a).sizes ELSE a.res_sizes]
    IN [kind |-> "built",
        cxt |-> IF bucketed THEN WrapCxt(a).items ELSE a.cxt,
        z |-> IF bucketed THEN WrapZ(a).items ELSE a.z,
        res |-> IF bucketed THEN WrapRes(a).items ELSE a.res,
        cxt_sizes |-> sized.cxt_sizes,
        z_sizes |-> sized.z_sizes,
        res_sizes |-> sized.res_sizes,
        sizes |-> <<a.cxt_sizes, a.z_sizes, a.res_sizes>>,
        bucketed |-> bucketed,
        bucketed_num_tokens |->
            IF bucketed THEN Some(BucketedNumTokens(sized)) ELSE None,
        left_pad_source |-> a.left_pad_source,
        left_pad_target |-> a.left_pad_target,
        shuffle |-> a.shuffle,
        input_feeding |-> a.input_feeding,
        remove_eos_from_source |-> a.remove_eos_from_source,
        append_eos_to_target |-> a.append_eos_to_target,
        constraints |-> a.constraints,
        append_bos |-> a.append_bos,
        eos |-> a.eos,
        cxt_lang_id |-> a.cxt_lang_id,
        z_lang_id |-> a.z_lang_id,
        res_lang_id |-> a.res_lang_id,
        pad_to_multiple |-> a.pad_to_multiple]

Failed == [kind |-> "failed"]

Construct ==
    /\ stores.kind = "args"
    /\ dataset.kind = "none"
    /\ dataset' = IF ConstructRaises(stores) THEN Failed ELSE BuildDataset(stores)
    /\ UNCHANGED <<samples, cfg, batch, index, example, ordered, filtered,
                   stores, calls, files, loaded>>

\* The fields __getitem__ reads for index i: self.cxt[i], self.z[i],
\* self.res[i], self.constraints[i] and the transform flags.
ItemAt(d, i) ==
    [kind |-> "items", cxt |-> d.cxt[i], z |-> d.z[i], res |-> d.res[i],
     constraints |->
        IF d.constraints = None THEN None ELSE Some(d.constraints[1][i]),
     append_eos_to_target |-> d.append_eos_to_target,
     append_bos |-> d.append_bos,
     remove_eos_from_source |-> d.remove_eos_from_source]

\* Mutant of AfterGetItem: the trailing eos cut from the stored context
\* itself.
AfterGetItemInPlace(d, i) ==
    [d EXCEPT !.cxt[i] = RemoveEos(ItemAt(d, i), d.cxt[i])]

\* The dataset after __getitem__(i): the method assigns no attribute of
\* self, and torch.cat and slicing build new tensors from the stored ones.
AfterGetItem(d, i) == d

\* __len__
LenSelf(d) == StoreLen(d.cxt)

\* size(index)
Size(d, i) == <<d.cxt_sizes[i], d.z_sizes[i], d.res_sizes[i]>>

\* The example dict of __getitem__ as collate reads it: it has no
\* prev_output_tokens key.
AsSample(ex) ==
    [id |-> ex.id, context |-> ex.context, latent |-> ex.latent,
     target |-> Some(ex.target), prev_output_tokens |-> None,
     constraints |-> ex.constraints]

\* The keyword arguments collater hands to collate
CollaterCfg(d, pad_to_length) ==
    [pad_idx |-> PadIdx, eos_idx |-> d.eos,
     left_pad_source |-> d.left_pad_source,
     left_pad_target |-> d.left_pad_target,
     input_feeding |-> d.input_feeding,
     pad_to_length |-> pad_to_length,
     pad_to_multiple |-> d.pad_to_multiple]

LangIdSet(d) ==
    d.cxt_lang_id # None \/ d.z_lang_id # None \/ d.res_lang_id # None

CollaterError ==
    [batch |-> [NoBatch EXCEPT !.status = "error"],
     cxt_lang_id |-> None, z_lang_id |-> None, res_lang_id |-> None]

\* collater(samples, pad_to_length).  collate's batch is bound to the name
\* result; the language-id block reads and writes the name res, which no
\* scope of the method binds, so with a language id set its first statement
\* raises NameError, whatever collate returned.  Without one the batch is
\* returned as collate made it, with no language-id field.
CollaterResults(d, smp, pad_to_length) ==
    IF LangIdSet(d) THEN {CollaterError}
    ELSE {[batch |-> b, cxt_lang_id |-> None, z_lang_id |-> None,
           res_lang_id |-> None] :
            b \in CollateResults(smp, CollaterCfg(d, pad_to_length))}

\* The index lists the batch sampler hands over: the first k indices.
BatchIndexLists(d) ==
    {SubSeq(Arange(LenSelf(d)), 1, k) : k \in 0..Min({LenSelf(d), MaxBatch})}

\* [dataset[i] for i in idxs]
SamplesOf(d, idxs) ==
    [j \in DOMAIN idxs |-> AsSample(GetItem(idxs[j], ItemAt(d, idxs[j])))]

Ready(w) == dataset.kind = "built" /\ calls[w].status = "ready"

SetReply(w, st, op, arg, value) ==
    [calls EXCEPT ![w] = [status |-> st, op |-> op, arg |-> arg, value |-> value]]

CallGet(w) ==
    /\ Ready(w)
    /\ \E i \in DOMAIN dataset.cxt :
         LET ex == GetItem(i, ItemAt(dataset, i))
         IN /\ calls' = SetReply(w, ex.status, "get", <<i>>, ex)
            /\ dataset' = AfterGetItem(dataset, i)
    /\ UNCHANGED <<samples, cfg, batch, index, example, ordered, filtered,
                   stores, files, loaded>>

CallLen(w) ==
    /\ Ready(w)
    /\ calls' = SetReply(w, "ok", "len", <<>>, LenSelf(dataset))
    /\ UNCHANGED <<samples, cfg, batch, dataset, index, example, ordered,
                   filtered, stores, files, loaded>>

CallSize(w) ==
    /\ Ready(w)
    /\ \E i \in DOMAIN dataset.cxt :
         calls' = SetReply(w, "ok", "size", <<i>>, Size(dataset, i))
    /\ UNCHANGED <<samples, cfg, batch, dataset, index, example, ordered,
                   filtered, stores, files, loaded>>

CallNumTokens(w) ==
    /\ Ready(w)
    /\ \E i \in DOMAIN dataset.cxt :
         calls' = SetReply(w, "ok", "num_tokens", <<i>>, NumTokens(dataset, i))
    /\ UNCHANGED <<samples, cfg, batch, dataset, index, example, ordered,
                   filtered, stores, files, loaded>>

CallOrderedIndices(w) ==
    /\ Ready(w)
    /\ \E start \in StartOrders(dataset) :
         calls' = SetReply(w, "ok", "ordered_indices", start,
                           OrderedIndices(dataset, start))
    /\ UNCHANGED <<samples, cfg, batch, dataset, index, example, ordered,
                   filtered, stores, files, loaded>>

CallFilterIndicesBySize(w) ==
    /\ Ready(w)
    /\ \E max_sizes \in MaxSizesValues :
         calls' = SetReply(w, "ok", "filter_indices_by_size", max_sizes,
                           FilterIndicesBySize(dataset, Arange(LenSelf(dataset)),
                                               max_sizes))
    /\ UNCHANGED <<samples, cfg, batch, dataset, index, example, ordered,
                   filtered, stores, files, loaded>>

\* collater on the examples of an index list; with append_bos no example can
\* be fetched, and only the empty list can be handed over.
CallCollater(w) ==
    /\ Ready(w)
    /\ \E idxs \in BatchIndexLists(dataset) :
         /\ AppendBosRaises(dataset) => idxs = <<>>
         /\ \E r \in CollaterResults(dataset, SamplesOf(dataset, idxs), None) :
              calls' = SetReply(w, r.batch.status, "collater", idxs, r)
    /\ UNCHANGED <<samples, cfg, batch, dataset, index, example, ordered,
                   filtered, stores, files, loaded>>

NextDataset ==
    \/ Construct
    \/ \E w \in Workers :
         \/ CallGet(w)
         \/ CallLen(w)
         \/ CallSize(w)
         \/ CallNumTokens(w)
         \/ CallOrderedIndices(w)
         \/ CallFilterIndicesBySize(w)
         \/ CallCollater(w)

(***************************************************************************)
(* The constructor's arguments.                                            *)
(***************************************************************************)
\* The lengths of a store's sequences when buckets are observed
BucketSizeValues == {1, 2, 3}

\* Example i of a store: n - 1 words, then eos
StoreSeq(base, i, n) == Tokens(base, i, n - 1) \o <<EosIdx>>

Store(base, lens) == [i \in DOMAIN lens |-> StoreSeq(base, i, lens[i])]

\* cxt_dataset.sizes: the lengths of the store's sequences
StoreSizes(store) == [i \in DOMAIN store |-> Len(store[i])]

TransformFlags ==
    {[append_eos_to_target |-> FALSE, remove_eos_from_source |-> FALSE, append_bos |-> FALSE],
     [append_eos_to_target |-> TRUE, remove_eos_from_source |-> TRUE, append_bos |-> FALSE],
     [append_eos_to_target |-> FALSE, remove_eos_from_source |-> FALSE, append_bos |-> TRUE]}

NoLangIds == [cxt |-> None, z |-> None, res |-> None]

LangIds ==
    {NoLangIds,
     [cxt |-> Some(11), z |-> None, res |-> None],
     [cxt |-> Some(11), z |-> Some(12), res |-> Some(13)]}

\* CSDAPairDataset(cxt, cxt.sizes, cxt_dict, z, z.sizes, res, res.sizes,
\* res_dict, ...) with the other arguments at their defaults.
MakeArgs(lc, lz, lr, num_buckets, left_pad_source, flags, shuffle, lang) ==
    [kind |-> "args",
     cxt |-> Store(100, lc), cxt_sizes |-> StoreSizes(Store(100, lc)),
     z |-> Store(200, lz), z_sizes |-> StoreSizes(Store(200, lz)),
     res |-> Store(300, lr), res_sizes |-> StoreSizes(Store(300, lr)),
     left_pad_source |-> left_pad_source, left_pad_target |-> FALSE,
     shuffle |-> shuffle, input_feeding |-> TRUE,
     remove_eos_from_source |-> flags.remove_eos_from_source,
     append_eos_to_target |-> flags.append_eos_to_target,
     constraints |-> None,
     append_bos |-> flags.append_bos,
     eos |-> EosIdx, num_buckets |-> num_buckets,
     cxt_lang_id |-> lang.cxt, z_lang_id |-> lang.z, res_lang_id |-> lang.res,
     pad_to_multiple |-> 1]

\* The size arrays of stores of up to MaxIndex + 1 examples
StoreLens == UNION {[0..(n - 1) -> SizeValues] : n \in 0..(MaxIndex + 1)}

ReadyCall == [NoCall EXCEPT !.status = "ready"]

\* One caller: stores of any three lengths, buckets on or off.
InitBuild ==
    /\ samples = <<>>
    /\ cfg = DefaultCfg
    /\ batch = NoBatch
    /\ dataset = NoDataset
    /\ index = 0
    /\ example = NoExample
    /\ ordered = NoOrder
    /\ filtered = NoFilter
    /\ \E lc \in StoreLens, lz \in StoreLens, lr \in StoreLens,
          num_buckets \in {0, 1}, left_pad_source \in BOOLEAN,
          flags \in TransformFlags, shuffle \in BOOLEAN, lang \in LangIds :
         /\ num_buckets > 0 => (lc # <<>> \/ lz # <<>> \/ lr # <<>>)
         /\ stores = MakeArgs(lc, lz, lr, num_buckets, left_pad_source, flags,
                              shuffle, lang)
    /\ calls = [w \in Workers |-> IF w = 1 THEN ReadyCall ELSE NoCall]
    /\ files = NoFiles
    /\ loaded = NoLoad

SpecBuild == InitBuild /\ [][NextDataset]_vars

\* Stores of NumExamples examples each, with buckets: every size array of the
\* context store, the latent store holding the same lengths in the opposite
\* order and the response store each length's successor.
InitBucket ==
    /\ samples = <<>>
    /\ cfg = DefaultCfg
    /\ batch = NoBatch
    /\ dataset = NoDataset
    /\ index = 0
    /\ example = NoExample
    /\ ordered = NoOrder
    /\ filtered = NoFilter
    /\ \E lc \in [0..(NumExamples - 1) -> BucketSizeValues],
          num_buckets \in {1, 2}, left_pad_source \in BOOLEAN :
         stores = MakeArgs(lc,
                           [i \in DOMAIN lc |-> lc[NumExamples - 1 - i]],
                           [i \in DOMAIN lc |-> (lc[i] % 3) + 1],
                           num_buckets, left_pad_source,
                           [append_eos_to_target |-> FALSE,
                            remove_eos_from_source |-> FALSE,
                            append_bos |-> FALSE],
                           FALSE, NoLangIds)
    /\ calls = [w \in Workers |-> IF w = 1 THEN ReadyCall ELSE NoCall]
    /\ files = NoFiles
    /\ loaded = NoLoad

SpecBucket == InitBucket /\ [][NextDataset]_vars

(***************************************************************************)
(* Properties of the constructed dataset.                                  *)
(***************************************************************************)
EqualStoreLens(a) ==
    StoreLen(a.cxt) = StoreLen(a.res) /\ StoreLen(a.z) = StoreLen(a.res)

Served(w) == calls[w].status \notin {"off", "ready"}

\* C11: constructing with three stores whose lengths are not all equal fails
\* and leaves no dataset, so no call is ever served on stores of different
\* lengths; a constructed dataset has len(cxt) = len(z) = len(res) = len(self).
MismatchNeverConstructs ==
    /\ dataset.kind \in {"built", "failed"} =>
         (dataset.kind = "failed" <=> ~EqualStoreLens(stores))
    /\ dataset.kind = "built" =>
         /\ StoreLen(dataset.cxt) = LenSelf(dataset)
         /\ StoreLen(dataset.z) = LenSelf(dataset)
         /\ StoreLen(dataset.res) = LenSelf(dataset)
         /\ LenSelf(dataset) = StoreLen(stores.res)
    /\ \A w \in Workers :
         Served(w) =>
           /\ dataset.kind = "built"
           /\ EqualStoreLens(stores)
           /\ calls[w].op = "len" => calls[w].value = StoreLen(stores.z)

MismatchNeverConstructsWitness ==
    /\ dataset.kind = "failed"
    /\ StoreLen(stores.cxt) = StoreLen(stores.res)
    /\ StoreLen(stores.z) > StoreLen(stores.res)
    /\ \A w \in Workers : ~Served(w)

PlainMax(sz) == Max({sz[1], sz[2], sz[3]})

\* C12 as amended: num_tokens(index) is max(max(cxt, z), max(cxt, res)) of the
\* dataset's current sizes, which is the plain maximum of the three sizes: it
\* is never smaller than the latent size or the response size.
NumTokensIsPlainMax ==
    \A w \in Workers :
      calls[w].op = "num_tokens" =>
        LET sz == Size(dataset, calls[w].arg[1])
        IN /\ calls[w].value = Max({Max({sz[1], sz[2]}), Max({sz[1], sz[3]})})
           /\ calls[w].value = PlainMax(sz)
           /\ calls[w].value >= sz[2]
           /\ calls[w].value >= sz[3]

NumTokensIsPlainMaxWitness ==
    \E w \in Workers :
      /\ calls[w].op = "num_tokens"
      /\ dataset.bucketed
      /\ LET sz == Size(dataset, calls[w].arg[1])
         IN /\ sz[1] < sz[3]
            /\ sz[2] < sz[3]
            /\ calls[w].value = sz[3]

\* C12 as stated: num_tokens(index) is max(max(cxt, z), max(cxt, res)), and
\* this is not the plain maximum of the three sizes: in a dataset that has an
\* example whose latent and response sizes differ, the two differ somewhere.
NumTokensNotPlainMax ==
    \A w \in Workers :
      calls[w].op = "num_tokens" =>
        LET sz == Size(dataset, calls[w].arg[1])
        IN /\ calls[w].value = Max({Max({sz[1], sz[2]}), Max({sz[1], sz[3]})})
           /\ (\E i \in DOMAIN dataset.cxt :
                 dataset.z_sizes[i] # dataset.res_sizes[i])
                => \E i \in DOMAIN dataset.cxt :
                     NumTokens(dataset, i) # PlainMax(Size(dataset, i))

Distinct(sizes) == {sizes[i] : i \in DOMAIN sizes}

\* One stream after bucketing: every reported size is the smallest boundary
\* that is >= the true length, the stored item has that length and holds the
\* original sequence, and at most num_buckets sizes occur.
StreamBucketed(store, true_sizes, items, padded_sizes, num_buckets) ==
    LET buckets == GetBuckets(true_sizes, num_buckets)
    IN /\ \A i \in DOMAIN true_sizes :
            /\ padded_sizes[i] \in buckets
            /\ padded_sizes[i] >= true_sizes[i]
            /\ \A b \in buckets : b >= true_sizes[i] => padded_sizes[i] <= b
            /\ Len(items[i]) = padded_sizes[i]
            /\ StripTok(items[i], PadIdx) = store[i]
       /\ Cardinality(Distinct(padded_sizes)) <= num_buckets

\* True sizes 1, 2, 8, 9 in every stream, two buckets
BucketExample ==
    LET lens == [i \in 0..3 |-> <<1, 2, 8, 9>>[i + 1]]
    IN MakeArgs(lens, lens, lens, 2, FALSE,
                [append_eos_to_target |-> FALSE,
                 remove_eos_from_source |-> FALSE, append_bos |-> FALSE],
                FALSE, NoLangIds)

BucketExampleTwoShapes ==
    LET d == BuildDataset(BucketExample)
    IN /\ ~ConstructRaises(BucketExample)
       /\ \A sizes \in {d.cxt_sizes, d.z_sizes, d.res_sizes} :
            /\ Cardinality(Distinct(sizes)) = 2
            /\ \A i \in 0..3 : sizes[i] >= <<1, 2, 8, 9>>[i + 1]

\* C16: with num_buckets = K > 0, for each stream on its own every example's
\* reported size is the smallest boundary >= its true length, so it is >= the
\* true length and at most K sizes occur per stream; K = 2 and true sizes
\* 1, 2, 8, 9 give exactly two sizes.
BucketsEnclose ==
    /\ (dataset.kind = "built" /\ dataset.bucketed) =>
         /\ StreamBucketed(stores.cxt, stores.cxt_sizes, dataset.cxt,
                           dataset.cxt_sizes, stores.num_buckets)
         /\ StreamBucketed(stores.z, stores.z_sizes, dataset.z,
                           dataset.z_sizes, stores.num_buckets)
         /\ StreamBucketed(stores.res, stores.res_sizes, dataset.res,
                           dataset.res_sizes, stores.num_buckets)
         /\ \A w \in Workers :
              calls[w].op = "size" =>
                LET i == calls[w].arg[1]
                IN /\ calls[w].value[1] >= stores.cxt_sizes[i]
                   /\ calls[w].value[2] >= stores.z_sizes[i]
                   /\ calls[w].value[3] >= stores.res_sizes[i]
    /\ BucketExampleTwoShapes

BucketsEncloseWitness ==
    /\ dataset.kind = "built"
    /\ stores.num_buckets = 2
    /\ Cardinality(Distinct(dataset.z_sizes)) = 2
    /\ Cardinality(Distinct(stores.z_sizes)) = 3
    /\ \E w \in Workers :
         /\ calls[w].op = "size"
         /\ calls[w].value[2] > stores.z_sizes[calls[w].arg[1]]
         /\ calls[w].value[1] = stores.cxt_sizes[calls[w].arg[1]]

\* C14: collate on an empty list of examples returns the empty batch and does
\* not raise, under every configuration, also when it is called through the
\* dataset's collater with a language id set.
EmptyListGivesEmptyBatch ==
    /\ (batch.status # "none" /\ samples = <<>>) => batch.status = "empty"
    /\ \A w \in Workers :
         (calls[w].op = "collater" /\ calls[w].arg = <<>>)
           => calls[w].value.batch.status = "empty"

\* The B x 1 array filled with a language id
Broadcast(lang_id, bsz) == [j \in 1..bsz |-> <<lang_id>>]

LangIdField(field, lang_id, bsz) ==
    lang_id # None => field = Some(Broadcast(lang_id[1], bsz))

\* C19: with a language id set for the context, latent or response stream,
\* collater returns a batch that has, for each stream with an id, a B x 1
\* array filled with that id, B being the number of rows of the batch.
LangIdsBroadcast ==
    \A w \in Workers :
      (calls[w].op = "collater" /\ calls[w].arg # <<>> /\ LangIdSet(dataset)) =>
        LET r == calls[w].value
            bsz == Len(r.batch.src_tokens)
        IN /\ r.batch.status = "ok"
           /\ bsz = Len(calls[w].arg)
           /\ LangIdField(r.cxt_lang_id, dataset.cxt_lang_id, bsz)
           /\ LangIdField(r.z_lang_id, dataset.z_lang_id, bsz)
           /\ LangIdField(r.res_lang_id, dataset.res_lang_id, bsz)

(***************************************************************************)
(* load_dialog_pair_dataset.  files.exists[stream][k] says whether shard k *)
(* of the stream is on disk for the split: "train" is shard 0, "train1"    *)
(* shard 1, and so on; no shard beyond MaxShard is on disk.                *)
(***************************************************************************)
Streams == {"cxt", "z", "res"}

\* split_exists for the context and the latent stream; for the response
\* stream, whether data_utils.load_indexed_dataset finds the file (it returns
\* None when it does not).
Exists(f, stream, k) == k <= MaxShard /\ f.exists[stream][k]

NoShards == [cxt |-> <<>>, z |-> <<>>, res |-> <<>>, raised |-> FALSE]

\* The for loop over k: the shard numbers appended to cxt_datasets,
\* z_datasets and res_datasets, or raised when FileNotFoundError is raised.
RECURSIVE LoadShards(_, _, _)
LoadShards(f, k, lists) ==
    IF ~Exists(f, "cxt", k)
    THEN (IF k > 0 THEN lists ELSE [lists EXCEPT !.raised = TRUE])
    ELSE LET with_cxt == [lists EXCEPT !.cxt = Append(@, k)]
         IN IF ~Exists(f, "z", k)
            THEN (IF k > 0 THEN with_cxt ELSE [with_cxt EXCEPT !.raised = TRUE])
            ELSE LET with_z == [with_cxt EXCEPT !.z = Append(@, k)]
                     with_res == IF Exists(f, "res", k)
                                 THEN [with_z EXCEPT !.res = Append(@, k)]
                                 ELSE with_z
                 IN IF ~f.combine THEN with_res
                    ELSE LoadShards(f, k + 1, with_res)

LoadError == [status |-> "error", shards |-> <<>>]

\* Mutant of LoadDialogPairDataset: the assert looks at cxt_datasets only.
LoadDialogPairDatasetAssertCxtOnly(f) ==
    LET lists == LoadShards(f, 0, NoShards)
    IN IF lists.raised THEN LoadError
       ELSE IF ~(Len(lists.cxt) = 1) THEN LoadError
       ELSE [status |-> "ok", shards |-> <<0>>]

\* The whole function: the loop, the assert that each list holds exactly one
\* dataset, and the CSDAPairDataset made of cxt_datasets[0], z_datasets[0]
\* and res_datasets[0].  shards are the shards whose examples the returned
\* dataset holds.
LoadDialogPairDataset(f) ==
    LET lists == LoadShards(f, 0, NoShards)
    IN IF lists.raised THEN LoadError
       ELSE IF ~(Len(lists.cxt) = 1 /\ Len(lists.res) = 1 /\ Len(lists.z) = 1)
       THEN LoadError
       ELSE [status |-> "ok", shards |-> <<lists.cxt[1]>>]

Load ==
    /\ files.kind = "disk"
    /\ loaded.status = "none"
    /\ loaded' = LoadDialogPairDataset(files)
    /\ UNCHANGED <<samples, cfg, batch, dataset, index, example, ordered,
                   filtered, stores, calls, files>>

InitLoad ==
    /\ samples = <<>>
    /\ cfg = DefaultCfg
    /\ batch = NoBatch
    /\ dataset = NoDataset
    /\ index = 0
    /\ example = NoExample
    /\ ordered = NoOrder
    /\ filtered = NoFilter
    /\ stores = NoStores
    /\ calls = NoCalls
    /\ files \in [kind : {"disk"},
                  exists : [Streams -> [0..MaxShard -> BOOLEAN]],
                  combine : BOOLEAN]
    /\ loaded = NoLoad

NextLoad == Load

SpecLoad == InitLoad /\ [][NextLoad]_vars

\* Shards 0..m-1 of all three streams are on disk
AllShardsBelow(m) ==
    \A k \in 0..(m - 1) : \A stream \in Streams : Exists(files, stream, k)

\* C17: with combine set, when shards 0..m-1 of all three streams are on disk
\* and shard m of the context or of the latent stream is not (m >= 1), loading
\* succeeds and the dataset holds the examples of shards 0..m-1 in shard
\* order.
CombineConcatenatesShards ==
    (loaded.status # "none" /\ files.combine) =>
      \A m \in 1..(MaxShard + 1) :
        (AllShardsBelow(m)
           /\ (~Exists(files, "cxt", m) \/ ~Exists(files, "z", m)))
          => /\ loaded.status = "ok"
             /\ loaded.shards = [k \in 1..m |-> k - 1]

\* C18: when shard 0 of the context, latent or response stream is missing,
\* loading raises and returns no dataset, with combine set or not.
FirstShardRequired ==
    (loaded.status # "none"
       /\ \E stream \in Streams : ~Exists(files, stream, 0))
      => loaded.status = "error"

FirstShardRequiredWitness ==
    /\ loaded.status = "error"
    /\ ~files.combine
    /\ Exists(files, "cxt", 0)
    /\ Exists(files, "z", 0)
    /\ ~Exists(files, "res", 0)
    /\ Exists(files, "res", 1)

(***************************************************************************)
(* Two workers calling the methods of one constructed dataset, in any      *)
(* interleaving.                                                           *)
(***************************************************************************)
InitWorkers ==
    /\ samples = <<>>
    /\ cfg = DefaultCfg
    /\ batch = NoBatch
    /\ dataset = NoDataset
    /\ index = 0
    /\ example = NoExample
    /\ ordered = NoOrder
    /\ filtered = NoFilter
    /\ \E lc \in [0..MaxIndex -> SizeValues], lr \in [0..MaxIndex -> SizeValues],
          num_buckets \in {0, 1}, flags \in TransformFlags :
         stores = MakeArgs(lc, [i \in DOMAIN lc |-> lc[MaxIndex - i]], lr,
                           num_buckets, FALSE, flags, FALSE, NoLangIds)
    /\ calls = [w \in Workers |-> ReadyCall]
    /\ files = NoFiles
    /\ loaded = NoLoad

SpecWorkers == InitWorkers /\ [][NextDataset]_vars

\* The value the call of a served worker returns when it is the only call
\* made on the dataset d
AloneReturns(d, call) ==
    CASE call.op = "get" ->
           call.value = GetItem(call.arg[1], ItemAt(d, call.arg[1]))
      [] call.op = "len" -> call.value = LenSelf(d)
      [] call.op = "size" -> call.value = Size(d, call.arg[1])
      [] call.op = "num_tokens" -> call.value = NumTokens(d, call.arg[1])
      [] call.op = "ordered_indices" ->
           call.value = OrderedIndices(d, call.arg)
      [] call.op = "filter_indices_by_size" ->
           call.value = FilterIndicesBySize(d, Arange(LenSelf(d)), call.arg)
      [] call.op = "collater" ->
           call.value \in CollaterResults(d, SamplesOf(d, call.arg), None)

StoreSupportsPrefetch(a, stream) == a.supports_prefetch[stream]

\* The property supports_prefetch
SupportsPrefetch(a) ==
    /\ StoreSupportsPrefetch(a, "cxt")
    /\ StoreSupportsPrefetch(a, "z")
    /\ StoreSupportsPrefetch(a, "res")

\* prefetch(indices): its first statement is assert 1 == 0, which raises
\* AssertionError before anything is read or written; with assertions
\* stripped the next statement reads self.h_src, an attribute __init__ never
\* sets, and raises AttributeError.  Either way the call raises and the
\* dataset is left as it was.
Prefetch(d, indices) == [status |-> "error", dataset |-> d]

CallSupportsPrefetch(w) ==
    /\ Ready(w)
    /\ calls' = SetReply(w, "ok", "supports_prefetch", <<>>, SupportsPrefetch(stores))
    /\ UNCHANGED <<samples, cfg, batch, dataset, index, example, ordered,
                   filtered, stores, files, loaded>>

CallPrefetch(w) ==
    /\ Ready(w)
    /\ \E idxs \in BatchIndexLists(dataset) :
         /\ calls' = SetReply(w, Prefetch(dataset, idxs).status, "prefetch", idxs, <<>>)
         /\ dataset' = Prefetch(dataset, idxs).dataset
    /\ UNCHANGED <<samples, cfg, batch, index, example, ordered, filtered,
                   stores, files, loaded>>

NextPrefetch ==
    \/ Construct
    \/ \E w \in Workers :
         \/ CallSupportsPrefetch(w)
         \/ CallPrefetch(w)
         \/ CallGet(w)
         \/ CallSize(w)
         \/ CallOrderedIndices(w)

\* Stores of MaxIndex + 1 examples, each with or without prefetch support,
\* and two callers.
InitPrefetch ==
    /\ samples = <<>>
    /\ cfg = DefaultCfg
    /\ batch = NoBatch
    /\ dataset = NoDataset
    /\ index = 0
    /\ example = NoExample
    /\ ordered = NoOrder
    /\ filtered = NoFilter
    /\ \E lc \in [0..MaxIndex -> SizeValues], num_buckets \in {0, 1},
          supports \in [Streams -> BOOLEAN] :
         stores = MakeArgs(lc, [i \in DOMAIN lc |-> lc[MaxIndex - i]], lc,
                           num_buckets, FALSE,
                           [append_eos_to_target |-> FALSE,
                            remove_eos_from_source |-> FALSE,
                            append_bos |-> FALSE],
                           FALSE, NoLangIds)
                  @@ [supports_prefetch |-> supports]
    /\ calls = [w \in Workers |-> ReadyCall]
    /\ files = NoFiles
    /\ loaded = NoLoad

SpecPrefetch == InitPrefetch /\ [][NextPrefetch]_vars

\* C21: supports_prefetch is true only if all three stores report prefetch
\* support, and whenever it is true a call prefetch(indices) returns without
\* failing and leaves the dataset, and with it every result of get, size and
\* ordered_indices, as it was.
PrefetchIsAdvisory ==
    dataset.kind = "built" =>
      /\ \A w \in Workers :
           (calls[w].op = "supports_prefetch" /\ calls[w].value) =>
              \A stream \in Streams : StoreSupportsPrefetch(stores, stream)
      /\ SupportsPrefetch(stores) =>
           \A w \in Workers :
              calls[w].op = "prefetch" =>
                /\ calls[w].status = "ok"
                /\ dataset = BuildDataset(stores)
                /\ \A v \in Workers :
                     calls[v].op \in {"get", "size", "ordered_indices"} =>
                        AloneReturns(dataset, calls[v])

(***************************************************************************)
(* The shape of collate's previous-output field.                           *)
(***************************************************************************)
\* The shape of a 2-D tensor: its number of rows and the width of each row
Shape(t) == [j \in DOMAIN t |-> Len(t[j])]

\* C22: whenever the batch contains prev_output_tokens, that array has the
\* shape of target (as many rows, each as wide), whatever pad_to_length and
\* pad_to_multiple are, and whether it is derived from the targets or taken
\* from the examples' precomputed sequences.
PreviousOutputShapedLikeTarget ==
    (Returned /\ batch.prev_output_tokens # None) =>
       Shape(batch.prev_output_tokens[1]) = Shape(batch.target)

(***************************************************************************)
(* The combined size table self.sizes.                                     *)
(***************************************************************************)
\* self.sizes[i]: row i of np.vstack((cxt_sizes, z_sizes, res_sizes)).T, the
\* stacked copy made before the bucket branch.
SizesRow(d, i) == <<d.sizes[1][i], d.sizes[2][i], d.sizes[3][i]>>

\* C23: in every constructed dataset, with or without buckets, row i of the
\* combined size table equals size(i), the triple of the per-stream size
\* arrays; with buckets these are the padded sizes.
SizesTableAgrees ==
    dataset.kind = "built" =>
       \A i \in DOMAIN dataset.cxt : SizesRow(dataset, i) = Size(dataset, i)

====
